---- MODULE Spec2Model ----
(***************************************************************************)
(* Resonance enumeration of resokit (src/resokit/tools/rmm.py).            *)
(*                                                                         *)
(* rmm_in_area(lims, r3p_order, r3p_maxint, r2p, r2p_order, r2p_maxint)    *)
(* is modelled as a state machine that takes one step per iteration of    *)
(* its innermost loops.  The window bounds are floats in the code; here    *)
(* they are exact rationals <<n, d>> with d >= 0, where d = 0 stands for   *)
(* the signed infinity numpy returns for a division by zero.               *)
(*                                                                         *)
(* The distance solver mindist_r3p and the curve primitive r3p of the same *)
(* file, and download_dataset of src/resokit/datasets/databases.py, are    *)
(* state machines of their own; a specification runs one of them and       *)
(* leaves the others idle.                                                 *)
(***************************************************************************)
EXTENDS Integers, Sequences, FiniteSets, TLC

VARIABLES
    lims,        \* <<l1x, l2x, l1y, l2y>>, each a rational <<n, d>>
    r3p_order,   \* argument r3p_order
    r3p_maxint,  \* argument r3p_maxint
    r2p,         \* argument r2p
    r2p_order,   \* argument r2p_order
    r2p_maxint,  \* argument r2p_maxint
    pc,          \* "r3p": in the three-body loops, "r2p": in the two-body loops, "done": returned
    ix, jx, kx,  \* positions of the loops over intl (three-body search)
    r3pl,        \* the list r3pl
    px, qx,      \* positions of the loops over intl (two-body search)
    r2px, r2py,  \* the lists r2px and r2py
    ret,         \* the returned value (<<>> until the function returns)
    \* mindist_r3p
    nnx, nny,    \* arguments nnx and nny: [shape, data], np.shape and the floats in row-major order
    mmr3p,       \* argument mmr3p, the resonance <<a, b, c>>
    return_coords, \* argument return_coords
    res,         \* argument res, the tolerance
    plain,       \* TRUE: the numbers passed are plain Python numbers; FALSE: numpy's
    mpc,         \* "call", "point": head of the for loop, "while": in the while loop,
                 \* "left": the loop was left by break, "done": returned, "raised"
    array, N,    \* the locals array and N
    pt,          \* the index i of the for loop
    x0, y0, dx,  \* the iterate and the last step
    xstuck,      \* the tracker xstuck
    mindistll, x0l, y0l, \* the result lists
    mret,        \* the returned value (<<>> until the function returns)
    merr,        \* the exception raised ("none" until one is)
    hist,        \* history: for each point begun, whether the loop body ran, whether it
                 \* ended by break, how often the fallback and line 310 ran, the
                 \* states <<x0, y0, dx, xstuck>> in which the loop body was entered,
                 \* and the iterates with which the branch of line 288 was entered
    \* r3p
    r3p_x,       \* argument x: [shape, data]
    r3p_res,     \* argument res, the resonance <<a, b, c>>
    r3p_plain,   \* TRUE: x and res hold plain Python numbers
    r3p_pc,      \* "call", "done" or "raised"
    r3p_out,     \* the values returned
    \* download_dataset
    source, fmt, overwrite, return_data, \* the arguments
    files,       \* the dataset files under PATH: the content of each, or "absent"
    files0,      \* history: files at the time of the call
    remote,      \* what each URL of download_urls serves
    dpc,         \* "call", "done" or "raised"
    dret,        \* the value returned, or the exception raised
    fetched      \* history: the number of requests.get of the call

rmmvars == <<lims, r3p_order, r3p_maxint, r2p, r2p_order, r2p_maxint,
             pc, ix, jx, kx, r3pl, px, qx, r2px, r2py, ret>>

mdargs == <<nnx, nny, mmr3p, return_coords, res, plain>>

mdvars == <<mdargs, mpc, array, N, pt, x0, y0, dx, xstuck, mindistll, x0l, y0l,
            mret, merr, hist>>

r3vars == <<r3p_x, r3p_res, r3p_plain, r3p_pc, r3p_out>>

dlvars == <<source, fmt, overwrite, return_data, files, files0, remote, dpc, dret, fetched>>

vars == <<rmmvars, mdvars, r3vars, dlvars>>

args == <<lims, r3p_order, r3p_maxint, r2p, r2p_order, r2p_maxint>>

-----------------------------------------------------------------------------
(* Bounds of the model *)

MaxInt3 == 3
MaxOrder3 == 2
MaxInt2 == 4
MaxOrder2 == 3
MantBits == 28
ExpMax == 127
Samples == 5
MaxSamples == 3
MaxFuel == 64

(* Defaults of rmm_in_area's arguments *)
DefaultOrder3 == 0
DefaultMaxInt3 == 10
DefaultOrder2 == 2
DefaultMaxInt2 == 10

-----------------------------------------------------------------------------
(* Arithmetic *)

Abs(n) == IF n < 0 THEN -n ELSE n

RECURSIVE Gcd(_, _)
Gcd(a, b) == IF b = 0 THEN Abs(a) ELSE Gcd(b, a % Abs(b))

\* np.gcd.reduce over a list of three integers
Gcd3(i, j, k) == Gcd(Gcd(i, j), k)

\* A float of the code as an exact rational n/d, d >= 0; d = 0 is +-inf by the sign of n.
Rat(n, d) == IF d < 0 THEN <<-n, -d>> ELSE <<n, d>>
RInt(n) == <<n, 1>>
RNeg(a) == <<-a[1], a[2]>>
RAdd(a, b) == Rat(a[1] * b[2] + b[1] * a[2], a[2] * b[2])
RMul(a, b) == Rat(a[1] * b[1], a[2] * b[2])
RDiv(a, b) == Rat(a[1] * b[2], a[2] * b[1])
RLt(a, b) == a[1] * b[2] < b[1] * a[2]
RLe(a, b) == a[1] * b[2] <= b[1] * a[2]
RGt(a, b) == RLt(b, a)
RGe(a, b) == RLe(b, a)
REq(a, b) == a[1] * b[2] = b[1] * a[2]

-----------------------------------------------------------------------------
(* Three-body search: rmm.py lines 34-132 *)

l1x == lims[1]
l2x == lims[2]
l1y == lims[3]
l2y == lims[4]

\* Variant of Intl3 that counts upwards; C19 must tell it apart
Intl3_Ascending(m) == [n \in 1..(IF m < 0 THEN 0 ELSE 2 * m + 1) |-> n - m - 1]

\* Variant of Intl3 that ranges over -|m| .. |m|; C10 must tell it apart
Intl3_Abs(m) == [n \in 1..(2 * Abs(m) + 1) |-> Abs(m) + 1 - n]

\* np.flip(np.arange(-r3p_maxint, r3p_maxint + 1)): m, m-1, ..., -m (empty when m < 0)
Intl3(m) == [n \in 1..(IF m < 0 THEN 0 ELSE 2 * m + 1) |-> m + 1 - n]

\* Variant of Rejected3 whose j = 0 rule reads (i > 0) | (k < 0); C3 must tell it apart
Rejected3_OrSigns(i, j, k, order) ==
    \/ Abs(i + j + k) > order
    \/ Cardinality({n \in 1..3 : <<i, j, k>>[n] = 0}) > 1
    \/ i = 0 \/ k = 0
    \/ (j = 0 /\ ~(i > 0 \/ k < 0))

\* The tests that skip a triple before it is canonicalised (lines 48-61)
Rejected3(i, j, k, order) ==
    \/ Abs(i + j + k) > order
    \/ Cardinality({n \in 1..3 : <<i, j, k>>[n] = 0}) > 1
    \/ i = 0 \/ k = 0
    \/ (j = 0 /\ ~(i > 0 /\ k < 0))

\* Variant of Negate3 that leaves the sign pattern (-, +, -) as it is; C24 must tell it apart
Negate3_Keep(t) == t

\* Global negation of the sign pattern (-, +, -) (lines 63-66)
Negate3(t) ==
    IF t[1] < 0 /\ t[2] > 0 /\ t[3] < 0 THEN <<-t[1], -t[2], -t[3]>> ELSE t

\* Variant of Reduce3 that leaves the triple undivided; C1 must tell it apart
Reduce3_NoDivide(t) == t

\* Reduction by the gcd (lines 68-71)
Reduce3(t) ==
    LET fac == Gcd3(t[1], t[2], t[3])
    IN  <<t[1] \div fac, t[2] \div fac, t[3] \div fac>>

Canon3(t) == Reduce3(Negate3(t))

InList(x, list) == \E n \in 1..Len(list) : list[n] = x

\* -j / i
Sing(i, j) == RDiv(RInt(-j), RInt(i))

\* -k / (i * x + j)
CurveAt(i, j, k, x) == RDiv(RInt(-k), RAdd(RMul(RInt(i), x), RInt(j)))

\* -(j * y + k) / i / y
CurveInv(i, j, k, y) == RDiv(RDiv(RNeg(RAdd(RMul(RInt(j), y), RInt(k))), RInt(i)), y)

\* Variant of LeftEdge that forgets the upper bound l2y; C5 must tell it apart
LeftEdge_NoUpper(i, j, k, w) ==
    RGe(CurveAt(i, j, k, w[1]), w[3])

\* Variant of RightEdge in which the right edge is never crossed; C4 must tell it apart
RightEdge_Never(i, j, k, w) == FALSE

\* Edge tests without a singularity in the x-range (lines 80-99)
LeftEdge(i, j, k, w) ==
    RGe(CurveAt(i, j, k, w[1]), w[3]) /\ RLe(CurveAt(i, j, k, w[1]), w[4])

RightEdge(i, j, k, w) ==
    RGe(CurveAt(i, j, k, w[2]), w[3]) /\ RLe(CurveAt(i, j, k, w[2]), w[4])

BottomEdge(i, j, k, w) ==
    RGe(CurveInv(i, j, k, w[3]), w[1]) /\ RLe(CurveInv(i, j, k, w[3]), w[2])

CrossNoSing(i, j, k, w) ==
    LeftEdge(i, j, k, w) \/ RightEdge(i, j, k, w) \/ BottomEdge(i, j, k, w)

\* Variant of BottomEdgeSing that tests only the part right of the singular x; C9 must tell it apart
BottomEdgeSing_RightOnly(i, j, k, w) ==
    RGt(CurveInv(i, j, k, w[3]), Sing(i, j)) /\ RLe(CurveInv(i, j, k, w[3]), w[2])

\* Edge tests with the singularity in the x-range (lines 101-130)
LeftEdgeSing(i, j, k, w) ==
    ~REq(Sing(i, j), w[1]) /\ LeftEdge(i, j, k, w)

RightEdgeSing(i, j, k, w) ==
    ~REq(Sing(i, j), w[2]) /\ RightEdge(i, j, k, w)

BottomEdgeSing(i, j, k, w) ==
    \/ RGe(CurveInv(i, j, k, w[3]), w[1]) /\ RLt(CurveInv(i, j, k, w[3]), Sing(i, j))
    \/ RGt(CurveInv(i, j, k, w[3]), Sing(i, j)) /\ RLe(CurveInv(i, j, k, w[3]), w[2])

CrossSing(i, j, k, w) ==
    LeftEdgeSing(i, j, k, w) \/ RightEdgeSing(i, j, k, w) \/ BottomEdgeSing(i, j, k, w)

\* The window test of a canonical triple (lines 76-130)
Crosses(t, w) ==
    IF RLt(Sing(t[1], t[2]), w[1]) \/ RGt(Sing(t[1], t[2]), w[2])
    THEN CrossNoSing(t[1], t[2], t[3], w)
    ELSE CrossSing(t[1], t[2], t[3], w)

\* The position of the triple s in the order in which the three loops visit the cube
\* (lines 38-44): i, then j, then k, each from r3p_maxint down
VisitRank(s) ==
    ((r3p_maxint - s[1]) * (2 * r3p_maxint + 1) + (r3p_maxint - s[2])) * (2 * r3p_maxint + 1)
    + (r3p_maxint - s[3])

\* The triples of the cube that pass the tests of lines 48-61 and that lines 63-71 turn
\* into the triple t of gcd 1: its multiples g * t, and the multiples -g * t of the
\* sign pattern (-, +, -)
Sources3(t) ==
    {s \in UNION {{<<g * t[1], g * t[2], g * t[3]>>, <<-g * t[1], -g * t[2], -g * t[3]>>} :
                    g \in 1..r3p_maxint} :
        /\ \A n \in 1..3 : Abs(s[n]) <= r3p_maxint
        /\ ~Rejected3(s[1], s[2], s[3], r3p_order)
        /\ (s[1] < 0 /\ s[2] > 0 /\ s[3] < 0) <=> (s[1] * t[1] < 0)}

\* One pass of the body of the innermost loop on the triple (i, j, k): the new r3pl
Body3(list, i, j, k, order, w) ==
    IF Rejected3(i, j, k, order) THEN list
    ELSE LET t == Canon3(<<i, j, k>>)
         IN  IF InList(t, list) THEN list
             ELSE IF Crosses(t, w) THEN Append(list, t)
             ELSE list

\* The loop positions after the one at (a, b, c) of three nested loops over n values
NextPos3(a, b, c, n) ==
    IF c < n THEN <<a, b, c + 1>>
    ELSE IF b < n THEN <<a, b + 1, 1>>
    ELSE <<a + 1, 1, 1>>

\* One iteration of the innermost three-body loop (lines 40-132)
Iter3P ==
    /\ pc = "r3p"
    /\ ix <= Len(Intl3(r3p_maxint))
    /\ LET intl == Intl3(r3p_maxint)
           nxt == NextPos3(ix, jx, kx, Len(intl))
       IN  /\ r3pl' = Body3(r3pl, intl[ix], intl[jx], intl[kx], r3p_order, lims)
           /\ ix' = nxt[1]
           /\ jx' = nxt[2]
           /\ kx' = nxt[3]
    /\ UNCHANGED <<args, pc, px, qx, r2px, r2py, ret>>
    /\ UNCHANGED <<mdvars, r3vars, dlvars>>

\* End of the three-body loops: return r3pl, or enter the two-body search (lines 135-140, 167-168)
End3P ==
    /\ pc = "r3p"
    /\ ix > Len(Intl3(r3p_maxint))
    /\ IF r2p
       THEN /\ pc' = "r2p"
            /\ ret' = ret
       ELSE /\ pc' = "done"
            /\ ret' = r3pl
    /\ UNCHANGED <<args, ix, jx, kx, r3pl, px, qx, r2px, r2py>>
    /\ UNCHANGED <<mdvars, r3vars, dlvars>>

-----------------------------------------------------------------------------
(* Two-body search: rmm.py lines 134-166 *)

\* np.arange(1, r2p_maxint + 1): 1, 2, ..., m (empty when m < 1)
Intl2(m) == [n \in 1..(IF m < 1 THEN 0 ELSE m) |-> n]

\* eq_ax = (l1y == l1x) & (l2y == l2x)
EqAx(w) == REq(w[3], w[1]) /\ REq(w[4], w[2])

\* Variant of Rejected2 whose order test reads i - j >= order; C7 must tell it apart
Rejected2_OffByOne(i, j, order) == j >= i \/ i - j >= order

\* The tests that skip a pair before it is reduced (lines 146-149)
Rejected2(i, j, order) == j >= i \/ i - j > order

\* Variant of Reduce2 that leaves the pair undivided; C6 must tell it apart
Reduce2_NoDivide(i, j) == <<i, j>>

\* Reduction by the gcd (lines 151-153)
Reduce2(i, j) == <<i \div Gcd(i, j), j \div Gcd(i, j)>>

\* (i / j >= lo) & (i / j <= hi)
InAxis(p, lo, hi) ==
    RGe(RDiv(RInt(p[1]), RInt(p[2])), lo) /\ RLe(RDiv(RInt(p[1]), RInt(p[2])), hi)

\* The membership test and append of one axis (lines 155-157, 160-162)
AddPair(list, p, lo, hi) ==
    IF InAxis(p, lo, hi) /\ ~InList(p, list) THEN Append(list, p) ELSE list

\* One pass of the loop body on (i, j): the new r2px
Body2X(list, i, j, order, w) ==
    IF Rejected2(i, j, order) THEN list
    ELSE AddPair(list, Reduce2(i, j), w[1], w[2])

\* One pass of the loop body on (i, j): the new r2py
Body2Y(list, i, j, order, w) ==
    IF Rejected2(i, j, order) \/ EqAx(w) THEN list
    ELSE AddPair(list, Reduce2(i, j), w[3], w[4])

\* Variant of AliasY that never aliases; C8 must tell it apart
AliasY_Never(xs, ys, w) == ys

\* if eq_ax: r2py = r2px (lines 163-164)
AliasY(xs, ys, w) == IF EqAx(w) THEN xs ELSE ys

\* One iteration of the inner two-body loop (lines 141-162)
Iter2P ==
    /\ pc = "r2p"
    /\ px <= Len(Intl2(r2p_maxint))
    /\ LET intl == Intl2(r2p_maxint)
       IN  /\ r2px' = Body2X(r2px, intl[px], intl[qx], r2p_order, lims)
           /\ r2py' = Body2Y(r2py, intl[px], intl[qx], r2p_order, lims)
           /\ IF qx < Len(intl)
              THEN px' = px /\ qx' = qx + 1
              ELSE px' = px + 1 /\ qx' = 1
    /\ UNCHANGED <<args, pc, ix, jx, kx, r3pl, ret>>
    /\ UNCHANGED <<mdvars, r3vars, dlvars>>

\* End of the two-body loops: alias r2py on a square window and return (lines 163-166)
End2P ==
    /\ pc = "r2p"
    /\ px > Len(Intl2(r2p_maxint))
    /\ r2py' = AliasY(r2px, r2py, lims)
    /\ ret' = <<r3pl, r2px, r2py'>>
    /\ pc' = "done"
    /\ UNCHANGED <<args, ix, jx, kx, r3pl, px, qx, r2px>>
    /\ UNCHANGED <<mdvars, r3vars, dlvars>>

-----------------------------------------------------------------------------
(* Floating point of the distance solver: rmm.py lines 12-24 and 211-324.   *)
(*                                                                         *)
(* mindist_r3p and r3p compute in binary floating point.  A float is a     *)
(* pair <<m, e>> of value m * 2^e whose mantissa m has MantBits bits       *)
(* (2^(MantBits-1) <= |m| < 2^MantBits, or m = 0 and e = 0); every         *)
(* operation rounds toward zero.  The exponent ExpInf marks the values     *)
(* numpy returns where no number exists: <<1, ExpInf>> is inf,             *)
(* <<-1, ExpInf>> is -inf and <<0, ExpInf>> is nan.                        *)

ExpInf == ExpMax + 1

Pow2(n) == 2 ^ n
GuardBits == 30 - MantBits

FNaN == <<0, ExpInf>>
FInf(s) == <<s, ExpInf>>
FZero == <<0, 0>>
IsNaN(a) == a[2] = ExpInf /\ a[1] = 0
IsInf(a) == a[2] = ExpInf /\ a[1] # 0
IsFinite(a) == a[2] # ExpInf
Sign(n) == IF n < 0 THEN -1 ELSE IF n > 0 THEN 1 ELSE 0

RECURSIVE BitLen(_)
BitLen(n) == IF n = 0 THEN 0 ELSE 1 + BitLen(n \div 2)

\* n / k rounded toward zero
TDiv(n, k) == IF n < 0 THEN -((-n) \div k) ELSE n \div k

\* The float of n * 2^e for n # 0 of len bits: inf beyond ExpMax, 0 below -ExpMax
NormBits(n, e, len) ==
    IF e + len - MantBits > ExpMax THEN FInf(Sign(n))
    ELSE IF e + len - MantBits < -ExpMax THEN FZero
    ELSE <<IF len > MantBits THEN TDiv(n, Pow2(len - MantBits))
           ELSE n * Pow2(MantBits - len),
           e + len - MantBits>>

\* The float nearest to n * 2^e toward zero
Norm(n, e) == IF n = 0 THEN FZero ELSE NormBits(n, e, BitLen(Abs(n)))

\* An integer, and a decimal literal n/d, as floats
FInt(n) == Norm(n, 0)

FNeg(a) == <<-a[1], a[2]>>
FAbs(a) == <<Abs(a[1]), a[2]>>

\* The sum of two finite nonzero floats, hi of the exponent larger by d
AddAligned(hi, lo, d) ==
    IF d > MantBits + GuardBits THEN hi
    ELSE IF d <= GuardBits THEN Norm(hi[1] * Pow2(d) + lo[1], lo[2])
    ELSE Norm(hi[1] * Pow2(GuardBits) + TDiv(lo[1], Pow2(d - GuardBits)),
              hi[2] - GuardBits)

FAdd(a, b) ==
    IF IsNaN(a) \/ IsNaN(b) THEN FNaN
    ELSE IF IsInf(a) THEN (IF IsInf(b) /\ b[1] # a[1] THEN FNaN ELSE a)
    ELSE IF IsInf(b) THEN b
    ELSE IF a[1] = 0 THEN b
    ELSE IF b[1] = 0 THEN a
    ELSE IF a[2] >= b[2] THEN AddAligned(a, b, a[2] - b[2])
    ELSE AddAligned(b, a, b[2] - a[2])

FSub(a, b) == FAdd(a, FNeg(b))

\* The product of two mantissas, less its MantBits - 1 low bits, is formed from
\* their halves of hl bits to stay within 31 bits
MulLimbs(a1, a0, b1, b0, hl) ==
    a1 * b1 * Pow2(2 * hl - MantBits + 1)
    + (a1 * b0 + a0 * b1 + ((a0 * b0) \div Pow2(hl))) \div Pow2(MantBits - 1 - hl)

MulMant(m, n, hl) ==
    MulLimbs(m \div Pow2(hl), m % Pow2(hl), n \div Pow2(hl), n % Pow2(hl), hl)

FMul(a, b) ==
    IF IsNaN(a) \/ IsNaN(b) THEN FNaN
    ELSE IF IsInf(a) \/ IsInf(b)
         THEN (IF a[1] = 0 \/ b[1] = 0 THEN FNaN ELSE FInf(Sign(a[1]) * Sign(b[1])))
    ELSE IF a[1] = 0 \/ b[1] = 0 THEN FZero
    ELSE Norm(Sign(a[1]) * Sign(b[1]) * MulMant(Abs(a[1]), Abs(b[1]), MantBits \div 2),
              a[2] + b[2] + MantBits - 1)

\* Long division of mantissas, GuardBits bits of the quotient at a time
RECURSIVE LongDiv(_, _, _, _)
LongDiv(rem, den, quo, n) ==
    IF n = 0 THEN quo
    ELSE LongDiv((rem * Pow2(GuardBits)) % den, den,
                 quo * Pow2(GuardBits) + ((rem * Pow2(GuardBits)) \div den), n - 1)

\* The number of chunks of a quotient
DivChunks == (MantBits + GuardBits - 1) \div GuardBits

\* numpy's division: x / 0 is inf by the sign of x, 0 / 0 is nan
FDiv(a, b) ==
    IF IsNaN(a) \/ IsNaN(b) THEN FNaN
    ELSE IF IsInf(a)
         THEN (IF IsInf(b) THEN FNaN ELSE FInf(a[1] * (IF b[1] < 0 THEN -1 ELSE 1)))
    ELSE IF IsInf(b) THEN FZero
    ELSE IF b[1] = 0 THEN (IF a[1] = 0 THEN FNaN ELSE FInf(Sign(a[1])))
    ELSE IF a[1] = 0 THEN FZero
    ELSE Norm(Sign(a[1]) * Sign(b[1])
              * LongDiv(Abs(a[1]) % Abs(b[1]), Abs(b[1]), Abs(a[1]) \div Abs(b[1]), DivChunks),
              a[2] - b[2] - DivChunks * GuardBits)

FRat(n, d) == FDiv(FInt(n), FInt(d))

\* Comparisons; every comparison with nan is false
FLt(a, b) ==
    /\ ~IsNaN(a) /\ ~IsNaN(b) /\ a # b
    /\ IF IsInf(a) THEN a[1] < 0
       ELSE IF IsInf(b) THEN b[1] > 0
       ELSE FSub(a, b)[1] < 0
FEq(a, b) == ~IsNaN(a) /\ ~IsNaN(b) /\ a = b
FLe(a, b) == FLt(a, b) \/ FEq(a, b)
FGt(a, b) == FLt(b, a)
FGe(a, b) == FLe(b, a)

\* y ** n for a small integer n >= 1
RECURSIVE FPow(_, _)
FPow(y, n) == IF n = 1 THEN y ELSE FMul(y, FPow(y, n - 1))

\* The integer square root, by bisection of lo..hi
RECURSIVE ISqrt(_, _, _)
ISqrt(n, lo, hi) ==
    IF hi - lo <= 1 THEN lo
    ELSE IF ((lo + hi) \div 2) * ((lo + hi) \div 2) <= n THEN ISqrt(n, (lo + hi) \div 2, hi)
    ELSE ISqrt(n, lo, (lo + hi) \div 2)

\* The bisection's root of m * 2^e, e even
SqrtSeed(m, e, k) == Norm(ISqrt(m * Pow2(k), 0, Pow2(15)), (e - k) \div 2)

\* One Newton step from the root s
SqrtNewton(a, s) == FMul(FAdd(s, FDiv(a, s)), FDiv(FInt(1), FInt(2)))

\* np.sqrt: nan for a negative argument; the bisection's root refined by one Newton step
FSqrt(a) ==
    IF IsNaN(a) \/ a[1] < 0 THEN FNaN
    ELSE IF IsInf(a) \/ a[1] = 0 THEN a
    ELSE IF a[2] % 2 # 0
    THEN SqrtNewton(a, SqrtSeed(2 * a[1], a[2] - 1, 2 * ((GuardBits - 1) \div 2)))
    ELSE SqrtNewton(a, SqrtSeed(a[1], a[2], 2 * ((GuardBits - 1) \div 2)))

-----------------------------------------------------------------------------
(* The curve primitive r3p: rmm.py lines 12-24 *)

\* An argument as numpy sees it: np.shape and the values in row-major order
Scalar(v) == [shape |-> <<>>, data |-> <<v>>]
Arr1(vs) == [shape |-> <<Len(vs)>>, data |-> vs]
Arr2(rows, cols, vs) == [shape |-> <<rows, cols>>, data |-> vs]

\* -c / (a * x + b) on one sample (line 14)
R3PValue(x, t) == FDiv(FInt(-t[3]), FAdd(FMul(FInt(t[1]), x), FInt(t[2])))

\* sing = -b / a (line 17)
FSing(t) == FDiv(FInt(-t[2]), FInt(t[1]))

\* Plain Python numbers raise ZeroDivisionError where numpy returns inf or nan:
\* the division of line 14 when a * x + b is zero, that of line 17 when a is zero
R3PRaises(x, t) ==
    \/ FAdd(FMul(FInt(t[1]), x), FInt(t[2])) = FZero
    \/ t[1] = 0

\* np.min and np.max: nan when a sample is nan
FMin2(a, b) == IF IsNaN(a) \/ IsNaN(b) THEN FNaN ELSE IF FLt(b, a) THEN b ELSE a
FMax2(a, b) == IF IsNaN(a) \/ IsNaN(b) THEN FNaN ELSE IF FGt(b, a) THEN b ELSE a

RECURSIVE FMin(_)
FMin(vs) == IF Len(vs) = 1 THEN vs[1] ELSE FMin2(vs[1], FMin(Tail(vs)))

RECURSIVE FMax(_)
FMax(vs) == IF Len(vs) = 1 THEN vs[1] ELSE FMax2(vs[1], FMax(Tail(vs)))

\* Variant of ArgMin that returns the last smallest sample; C17 must tell it apart
ArgMin_Last(vs) ==
    IF \E n \in 1..Len(vs) : IsNaN(vs[n])
    THEN CHOOSE n \in 1..Len(vs) : IsNaN(vs[n]) /\ \A k \in 1..(n - 1) : ~IsNaN(vs[k])
    ELSE CHOOSE n \in 1..Len(vs) :
             /\ \A k \in 1..Len(vs) : FLe(vs[n], vs[k])
             /\ \A k \in (n + 1)..Len(vs) : FLt(vs[n], vs[k])

\* np.argmin: the first nan if there is one, else the first smallest sample
ArgMin(vs) ==
    IF \E n \in 1..Len(vs) : IsNaN(vs[n])
    THEN CHOOSE n \in 1..Len(vs) : IsNaN(vs[n]) /\ \A k \in 1..(n - 1) : ~IsNaN(vs[k])
    ELSE CHOOSE n \in 1..Len(vs) :
             /\ \A k \in 1..Len(vs) : FLe(vs[n], vs[k])
             /\ \A k \in 1..(n - 1) : FLt(vs[n], vs[k])

\* y = -c / (a * x + b) on every sample (line 14)
R3PValues(x, t) == [n \in 1..Len(x.data) |-> R3PValue(x.data[n], t)]

\* if len(x) > 1 and sing >= np.min(x) and sing <= np.max(x) (lines 16 and 18)
R3PStraddles(x, sing) ==
    /\ Len(x.shape) > 0
    /\ x.shape[1] > 1
    /\ FGe(sing, FMin(x.data)) /\ FLe(sing, FMax(x.data))

\* np.argmin(np.abs(x - sing)) (line 19)
R3PNearest(x, sing) == ArgMin([n \in 1..Len(x.data) |-> FAbs(FSub(x.data[n], sing))])

\* r3p(x, res) on a scalar or a one-dimensional array: the values, in the shape of x
R3P(x, t) ==
    IF R3PStraddles(x, FSing(t))
    THEN [R3PValues(x, t) EXCEPT ![R3PNearest(x, FSing(t))] = FNaN]
    ELSE R3PValues(x, t)

-----------------------------------------------------------------------------
(* The distance solver mindist_r3p: rmm.py lines 211-324 *)

\* The literals of the solver
StartOffset == FRat(1, 2)
\* Variant of ResetOffset that restarts beyond the singular x; C21 must tell it apart
ResetOffset_Beyond == FRat(-5, 100)

ResetOffset == FRat(5, 100)
DomainEps == FRat(1, 100000)
DefaultRes == FRat(1, 1000000)

\* The values of xstuck: None, "first_stuck_pass", a float, "no_conv"
XsNone == [tag |-> "None", val |-> FZero]
XsFirst == [tag |-> "first_stuck_pass", val |-> FZero]
XsAt(v) == [tag |-> "float", val |-> v]
XsNoConv == [tag |-> "no_conv", val |-> FZero]

\* Variant of IsArrayCall that forgets to compare the lengths; C11 must tell it apart
IsArrayCall_AnyLength(p, q) == Len(p.shape) = 1 /\ Len(q.shape) = 1

\* array, by the shapes of nnx and nny (lines 242-256)
IsArrayCall(p, q) == Len(p.shape) = 1 /\ Len(q.shape) = 1 /\ p.shape = q.shape
IsScalarCall(p, q) == Len(p.shape) = 0 /\ Len(q.shape) = 0

\* g0, d1g0, d2g0 and the two sides of the quotient dx (lines 275-282)
HalleyG0(px0, py0, nx, ny, ac) ==
    FSub(FAdd(FAdd(FMul(FInt(-2), nx), FMul(FInt(2), px0)),
              FMul(FMul(FInt(2), FPow(py0, 3)), ac)),
         FMul(FMul(FMul(FInt(2), ny), FPow(py0, 2)), ac))

HalleyD1(py0, ny, ac2) ==
    FSub(FAdd(FInt(2), FMul(FMul(FInt(6), ac2), FPow(py0, 4))),
         FMul(FMul(FMul(FInt(4), ac2), ny), FPow(py0, 3)))

HalleyD2(py0, ny, ac3) ==
    FSub(FMul(FMul(FInt(24), ac3), FPow(py0, 5)),
         FMul(FMul(FMul(FInt(12), ny), ac3), FPow(py0, 4)))

HalleyNum(g, d1) == FMul(FMul(FInt(2), g), d1)
HalleyDen(g, d1, d2) == FSub(FMul(FInt(2), FPow(d1, 2)), FMul(g, d2))

\* Variant of Tracker that records the iterate of the first crossing; C22 must tell it apart
Tracker_RecordsFirst(xs, px0) == IF xs.tag = "None" THEN XsAt(px0) ELSE xs

\* Variant of Tracker that never records an iterate; C25 must tell it apart
Tracker_NeverRecords(xs, px0) == IF xs.tag = "None" THEN XsFirst ELSE xs

\* The tracker after a crossing that is not a repeat (lines 292-295)
Tracker(xs, px0) ==
    IF xs.tag = "first_stuck_pass" THEN XsAt(px0)
    ELSE IF xs.tag = "None" THEN XsFirst
    ELSE xs

\* Lines 285-298: the iterate x1 of the step, or the reset below the singular x;
\* crossed holds x1 when the branch of line 288 was entered
HalleyLand(px0, py0, xs, t, py, den, step, x1) ==
    IF py /\ (den = FZero \/ R3PRaises(x1, t))
    THEN [x0 |-> px0, y0 |-> py0, dx |-> step, xstuck |-> xs, brk |-> FALSE,
          err |-> "ZeroDivisionError", crossed |-> <<>>]
    ELSE IF FGe(x1, FSing(t)) /\ t[2] # 0
    THEN IF xs.tag = "float" /\ FEq(x1, xs.val)
         THEN [x0 |-> x1, y0 |-> R3PValue(x1, t), dx |-> step, xstuck |-> XsNoConv,
               brk |-> TRUE, err |-> "none", crossed |-> <<x1>>]
         ELSE [x0 |-> FSub(FSing(t), ResetOffset),
               y0 |-> R3PValue(FSub(FSing(t), ResetOffset), t), dx |-> FInt(1),
               xstuck |-> Tracker(xs, x1), brk |-> FALSE, err |-> "none",
               crossed |-> <<x1>>]
    ELSE [x0 |-> x1, y0 |-> R3PValue(x1, t), dx |-> step, xstuck |-> xs, brk |-> FALSE,
          err |-> "none", crossed |-> <<>>]

\* Lines 282-283: dx and x0 -= dx
HalleyMove(px0, py0, xs, t, py, den, step) ==
    HalleyLand(px0, py0, xs, t, py, den, step, FSub(px0, step))

\* Line 282 from g0 and its derivatives
HalleyQuot(px0, py0, xs, t, py, g, d1, d2) ==
    HalleyMove(px0, py0, xs, t, py, HalleyDen(g, d1, d2),
               FDiv(HalleyNum(g, d1), HalleyDen(g, d1, d2)))

\* Lines 274-280 with ac = a / c
HalleyDerivs(px0, py0, xs, nx, ny, t, py, ac) ==
    HalleyQuot(px0, py0, xs, t, py, HalleyG0(px0, py0, nx, ny, ac),
               HalleyD1(py0, ny, FPow(ac, 2)), HalleyD2(py0, ny, FMul(ac, FPow(ac, 2))))

\* One pass of the body of the while loop (lines 274-298) from the iterate px0 with
\* tracker xs: the new x0, y0, dx and xstuck, whether the loop was left by break, and
\* the error raised when py says the numbers are plain Python numbers
HalleyPass(px0, py0, xs, nx, ny, t, py) ==
    HalleyDerivs(px0, py0, xs, nx, ny, t, py, FDiv(FInt(t[1]), FInt(t[3])))

\* np.linspace(start, stop, num): start + n * step, the last sample the stop itself
Linspace(start, stop, num) ==
    [n \in 1..num |->
        IF n = num THEN stop
        ELSE FAdd(FMul(FInt(n - 1), FDiv(FSub(stop, start), FInt(num - 1))), start)]

\* np.sqrt((nnxi - x)**2 + (nnyi - y)**2) (lines 302 and 310)
Dist(nx, ny, px0, py0) ==
    FSqrt(FAdd(FPow(FSub(nx, px0), 2), FPow(FSub(ny, py0), 2)))

\* dom = np.linspace(1, singu - 1e-5, 1000000), with Samples samples (line 301)
FallbackDomain(t) == Arr1(Linspace(FInt(1), FSub(FSing(t), DomainEps), Samples))

\* The dense-sampling fallback (lines 301-308): mindist, x0 and y0
FallbackDists(nx, ny, dom, ys) ==
    [n \in 1..Len(ys) |-> Dist(nx, ny, dom.data[n], ys[n])]

FallbackPick(dom, mindistl, t, argmin) ==
    [mindist |-> mindistl[argmin],
     x0 |-> dom.data[argmin],
     y0 |-> R3PValue(dom.data[argmin], t)]

FallbackOn(nx, ny, t, dom, mindistl) == FallbackPick(dom, mindistl, t, ArgMin(mindistl))

Fallback(nx, ny, t) ==
    FallbackOn(nx, ny, t, FallbackDomain(t),
               FallbackDists(nx, ny, FallbackDomain(t), R3P(FallbackDomain(t), t)))

\* Variant of UseFallback that samples whatever the tracker says; C13 must tell it apart
UseFallback_Always(xs) == TRUE

\* if xstuck == "no_conv" (line 300)
UseFallback(xs) == xs.tag = "no_conv"

\* while abs(dx) > res (line 273)
LoopGoesOn(pdx, tol) == FGt(FAbs(pdx), tol)

\* The while loop has been left: by its condition, or by break
LoopLeft == mpc = "left" \/ (mpc = "while" /\ ~LoopGoesOn(dx, res))

\* The value returned (lines 312-316 and 321-324)
ReturnValue(coords, md, rx, ry) == IF coords THEN <<md, rx, ry>> ELSE md

\* Variant of PointStart in which the tracker of the point before lives on; C14 must tell it apart
PointStart_KeepTracker(nx, t, xs) ==
    LET start == FSub(nx, StartOffset)
    IN  [x0 |-> start, y0 |-> R3PValue(start, t), dx |-> FInt(1), xstuck |-> xs]

\* The state in which a point enters the while loop (lines 265-271); xs is the
\* tracker the point before has left, which line 269 overwrites
PointStart(nx, t, xs) ==
    LET start == FSub(nx, StartOffset)
    IN  [x0 |-> start, y0 |-> R3PValue(start, t), dx |-> FInt(1), xstuck |-> XsNone]

\* The state in which a point enters the while loop, with the error of line 266
ScalarStart(st, t, py) ==
    [x0 |-> st.x0, y0 |-> st.y0, dx |-> st.dx, xstuck |-> st.xstuck, brk |-> FALSE,
     err |-> IF py /\ R3PRaises(st.x0, t) THEN "ZeroDivisionError" ELSE "none"]

\* What lines 300-316 return on a scalar call
ScalarEnd(md, rx, ry) == [end |-> "done", mindist |-> md, x0 |-> rx, y0 |-> ry]
ScalarFallback(fb) == ScalarEnd(fb.mindist, fb.x0, fb.y0)

\* The scalar call from the loop state st on (lines 273-316), the loop allowed fuel
\* passes: what it returns, or that it has raised, or that it is still running
RECURSIVE ScalarLoop(_, _, _, _, _, _, _)
ScalarLoop(st, nx, ny, t, tol, py, fuel) ==
    IF st.err # "none"
    THEN [end |-> "raised", mindist |-> FZero, x0 |-> st.x0, y0 |-> st.y0]
    ELSE IF st.brk \/ ~LoopGoesOn(st.dx, tol)
    THEN IF UseFallback(st.xstuck) THEN ScalarFallback(Fallback(nx, ny, t))
         ELSE ScalarEnd(Dist(nx, ny, st.x0, st.y0), st.x0, st.y0)
    ELSE IF fuel = 0
    THEN [end |-> "running", mindist |-> FZero, x0 |-> st.x0, y0 |-> st.y0]
    ELSE ScalarLoop(HalleyPass(st.x0, st.y0, st.xstuck, nx, ny, t, py),
                    nx, ny, t, tol, py, fuel - 1)

\* mindist_r3p(nx, ny, t, return_coords=True, res=tol) on scalars (lines 258-316)
ScalarCall(nx, ny, t, tol, py, fuel) ==
    ScalarLoop(ScalarStart(PointStart(nx, t, XsNone), t, py), nx, ny, t, tol, py, fuel)

\* The shape test and the set-up of the results (lines 240-256)
MdEntry ==
    /\ mpc = "call"
    /\ IF IsArrayCall(nnx, nny)
       THEN /\ array' = TRUE
            /\ N' = nnx.shape[1]
            /\ merr' = merr
            /\ IF nnx.shape[1] = 0
               THEN /\ mpc' = "done"
                    /\ mret' = ReturnValue(return_coords, <<>>, <<>>, <<>>)
               ELSE /\ mpc' = "point"
                    /\ mret' = mret
       ELSE IF IsScalarCall(nnx, nny)
       THEN /\ array' = FALSE
            /\ N' = 1
            /\ mpc' = "point"
            /\ UNCHANGED <<mret, merr>>
       ELSE /\ mpc' = "raised"
            /\ merr' = "Fix shape of nnx and nny"
            /\ UNCHANGED <<array, N, mret>>
    /\ UNCHANGED <<mdargs, pt, x0, y0, dx, xstuck, mindistll, x0l, y0l, hist>>
    /\ UNCHANGED <<rmmvars, r3vars, dlvars>>

\* The head of the for loop on a point (lines 258-271)
MdPoint ==
    /\ mpc = "point"
    /\ \E st \in {PointStart(nnx.data[pt + 1], mmr3p, xstuck)} :
           IF plain /\ R3PRaises(st.x0, mmr3p)
           THEN /\ mpc' = "raised"
                /\ merr' = "ZeroDivisionError"
                /\ x0' = st.x0
                /\ UNCHANGED <<y0, dx, xstuck, hist>>
           ELSE /\ mpc' = "while"
                /\ merr' = merr
                /\ x0' = st.x0
                /\ y0' = st.y0
                /\ dx' = st.dx
                /\ xstuck' = st.xstuck
                /\ hist' = Append(hist, [passes |-> FALSE, noconv |-> FALSE,
                                         fallbacks |-> 0, direct |-> 0, seen |-> {},
                                         cross |-> <<>>])
    /\ UNCHANGED <<mdargs, array, N, pt, mindistll, x0l, y0l, mret>>
    /\ UNCHANGED <<rmmvars, r3vars, dlvars>>

\* One pass of the while loop (lines 273-298)
MdHalley ==
    /\ mpc = "while"
    /\ LoopGoesOn(dx, res)
    /\ \E st \in {HalleyPass(x0, y0, xstuck, nnx.data[pt + 1], nny.data[pt + 1],
                                mmr3p, plain)} :
           /\ x0' = st.x0
           /\ y0' = st.y0
           /\ dx' = st.dx
           /\ xstuck' = st.xstuck
           /\ mpc' = IF st.err # "none" THEN "raised" ELSE IF st.brk THEN "left" ELSE "while"
           /\ merr' = IF st.err # "none" THEN st.err ELSE merr
           /\ hist' = [hist EXCEPT ![Len(hist)].passes = TRUE,
                                   ![Len(hist)].noconv = st.brk,
                                   ![Len(hist)].seen = @ \cup {<<x0, y0, dx, xstuck>>},
                                   ![Len(hist)].cross = @ \o st.crossed]
    /\ UNCHANGED <<mdargs, array, N, pt, mindistll, x0l, y0l, mret>>
    /\ UNCHANGED <<rmmvars, r3vars, dlvars>>

\* The end of a point (lines 312-324): return at once on a scalar call, else append
\* and go to the next point, returning the lists after the last
Deliver(md, rx, ry) ==
    IF ~array
    THEN /\ mret' = ReturnValue(return_coords, md, rx, ry)
         /\ mpc' = "done"
         /\ UNCHANGED <<pt, mindistll, x0l, y0l>>
    ELSE /\ mindistll' = Append(mindistll, md)
         /\ x0l' = Append(x0l, rx)
         /\ y0l' = Append(y0l, ry)
         /\ pt' = pt + 1
         /\ IF pt + 1 < N
            THEN /\ mpc' = "point"
                 /\ mret' = mret
            ELSE /\ mpc' = "done"
                 /\ mret' = ReturnValue(return_coords, mindistll', x0l', y0l')

\* The loop ended without "no_conv": the distance to the last iterate (line 310)
MdDistance ==
    /\ LoopLeft
    /\ ~UseFallback(xstuck)
    /\ Deliver(Dist(nnx.data[pt + 1], nny.data[pt + 1], x0, y0), x0, y0)
    /\ hist' = [hist EXCEPT ![Len(hist)].direct = @ + 1]
    /\ UNCHANGED <<mdargs, array, N, x0, y0, dx, xstuck, merr>>
    /\ UNCHANGED <<rmmvars, r3vars, dlvars>>

\* The loop ended with "no_conv": the dense-sampling fallback (lines 300-308)
MdFallback ==
    /\ LoopLeft
    /\ UseFallback(xstuck)
    /\ \E fb \in {Fallback(nnx.data[pt + 1], nny.data[pt + 1], mmr3p)} :
           /\ x0' = fb.x0
           /\ y0' = fb.y0
           /\ Deliver(fb.mindist, fb.x0, fb.y0)
    /\ hist' = [hist EXCEPT ![Len(hist)].fallbacks = @ + 1]
    /\ UNCHANGED <<mdargs, array, N, dx, xstuck, merr>>
    /\ UNCHANGED <<rmmvars, r3vars, dlvars>>

-----------------------------------------------------------------------------
(* A call of r3p: rmm.py lines 12-24 *)

\* r3p(x, res): raises on plain Python numbers at the singular x, else returns the values
R3PCall ==
    /\ r3p_pc = "call"
    /\ IF r3p_plain /\ Len(r3p_x.shape) = 0 /\ R3PRaises(r3p_x.data[1], r3p_res)
       THEN /\ r3p_pc' = "raised"
            /\ r3p_out' = r3p_out
       ELSE /\ r3p_pc' = "done"
            /\ r3p_out' = R3P(r3p_x, r3p_res)
    /\ UNCHANGED <<r3p_x, r3p_res, r3p_plain>>
    /\ UNCHANGED <<rmmvars, mdvars, dlvars>>

-----------------------------------------------------------------------------
(* download_dataset: src/resokit/datasets/databases.py lines 152-216 *)

\* str.lower() on the spellings the model passes
Lower(s) ==
    CASE s = "EU" -> "eu"
      [] s = "NASA" -> "nasa"
      [] s = "CSV" -> "csv"
      [] s = "VOTABLE" -> "votable"
      [] OTHER -> s

\* basename (lines 35-38)
Basename(src) == IF src = "eu" THEN "exoplanet_eu" ELSE "nasa"

\* __get_filename raises ValueError (lines 114-115 and 120)
BadFilename(src, f) == src \notin {"eu", "nasa"} \/ f \notin {"csv", "votable", "vot"}

\* __get_filename (lines 116-119): <<basename, extension>>
GetFilename(src, f) == <<Basename(src), IF f = "csv" THEN ".csv" ELSE ".vot">>

\* The keys of download_urls (lines 43-48)
DownloadUrls == {<<"eu", "csv">>, <<"eu", "votable">>, <<"nasa", "csv">>, <<"nasa", "votable">>}

\* fmt[:3]
First3(f) ==
    CASE f = "csv" -> "csv"
      [] f = "votable" -> "vot"
      [] f = "vot" -> "vot"

\* source + "_" + fmt[:3] (line 207)
UrlKey(src, f) == <<src, First3(f)>>

\* One call of download_dataset (lines 189-216)
DownloadDataset ==
    /\ dpc = "call"
    /\ LET src == Lower(source)
           f == Lower(fmt)
           name == GetFilename(src, f)
       IN  IF BadFilename(src, f)
           THEN /\ dpc' = "raised"
                /\ dret' = "ValueError"
                /\ UNCHANGED <<files, fetched>>
           ELSE IF files[name] # "absent" /\ ~overwrite
           THEN /\ dpc' = "done"
                /\ dret' = "None"
                /\ UNCHANGED <<files, fetched>>
           ELSE IF files[name] # "absent"
           THEN /\ dpc' = "done"
                /\ dret' = IF return_data THEN files[name] ELSE "None"
                /\ UNCHANGED <<files, fetched>>
           ELSE IF UrlKey(src, f) \notin DownloadUrls
           THEN /\ dpc' = "raised"
                /\ dret' = "KeyError"
                /\ UNCHANGED <<files, fetched>>
           ELSE /\ files' = [files EXCEPT ![name] = remote[UrlKey(src, f)]]
                /\ fetched' = fetched + 1
                /\ dpc' = "done"
                /\ dret' = IF return_data THEN files'[name] ELSE "None"
    /\ UNCHANGED <<source, fmt, overwrite, return_data, remote, files0>>
    /\ UNCHANGED <<rmmvars, mdvars, r3vars>>

-----------------------------------------------------------------------------
(* Specifications *)

\* The state at the entry of rmm_in_area (lines 35-36), the arguments left open
Entry ==
    /\ pc = "r3p"
    /\ ix = 1 /\ jx = 1 /\ kx = 1
    /\ r3pl = <<>>
    /\ px = 1 /\ qx = 1
    /\ r2px = <<>> /\ r2py = <<>>
    /\ ret = <<>>

\* The state at the entry of mindist_r3p, the arguments left open
MdCall ==
    /\ mpc = "call"
    /\ array = FALSE /\ N = 0 /\ pt = 0
    /\ x0 = FZero /\ y0 = FZero /\ dx = FZero /\ xstuck = XsNone
    /\ mindistll = <<>> /\ x0l = <<>> /\ y0l = <<>>
    /\ mret = <<>> /\ merr = "none" /\ hist = <<>>

\* mindist_r3p is not called
NoMinDist ==
    /\ nnx = Scalar(FZero) /\ nny = Scalar(FZero)
    /\ mmr3p = <<1, 0, -1>>
    /\ return_coords = FALSE /\ res = DefaultRes /\ plain = FALSE
    /\ mpc = "idle"
    /\ array = FALSE /\ N = 0 /\ pt = 0
    /\ x0 = FZero /\ y0 = FZero /\ dx = FZero /\ xstuck = XsNone
    /\ mindistll = <<>> /\ x0l = <<>> /\ y0l = <<>>
    /\ mret = <<>> /\ merr = "none" /\ hist = <<>>

\* r3p is not called
NoR3P ==
    /\ r3p_x = Scalar(FZero) /\ r3p_res = <<1, 0, -1>> /\ r3p_plain = FALSE
    /\ r3p_pc = "idle" /\ r3p_out = <<>>

\* The files download_dataset may write
Filenames == {<<"exoplanet_eu", ".csv">>, <<"exoplanet_eu", ".vot">>,
              <<"nasa", ".csv">>, <<"nasa", ".vot">>}

\* download_dataset is not called
NoDownload ==
    /\ source = "eu" /\ fmt = "csv" /\ overwrite = FALSE /\ return_data = FALSE
    /\ files = [n \in Filenames |-> "absent"] /\ files0 = files
    /\ remote = [k \in DownloadUrls |-> "served"]
    /\ dpc = "idle" /\ dret = "None" /\ fetched = 0

\* rmm_in_area is not called
NoRmm ==
    /\ lims = <<<<11, 10>>, <<25, 10>>, <<11, 10>>, <<25, 10>>>>
    /\ r3p_order = DefaultOrder3 /\ r3p_maxint = DefaultMaxInt3
    /\ r2p = TRUE /\ r2p_order = DefaultOrder2 /\ r2p_maxint = DefaultMaxInt2
    /\ pc = "idle"
    /\ ix = 1 /\ jx = 1 /\ kx = 1 /\ r3pl = <<>>
    /\ px = 1 /\ qx = 1 /\ r2px = <<>> /\ r2py = <<>> /\ ret = <<>>

\* Window coordinates of the bounded checks: lower and upper bounds of an axis.
\* A lower bound may equal or exceed an upper bound: the code accepts such windows.
WinLo == {<<-1, 1>>, <<0, 1>>, <<1, 2>>, <<1, 1>>}
WinHi == {<<0, 1>>, <<1, 1>>, <<2, 1>>}
Windows == WinLo \X WinHi \X WinLo \X WinHi

\* Window coordinates around the ratios p/q of the two-body search
WinLo2P == {<<1, 1>>, <<4, 3>>, <<2, 1>>}
WinHi2P == {<<4, 3>>, <<3, 2>>, <<2, 1>>, <<3, 1>>}
Windows2P == WinLo2P \X WinHi2P \X WinLo2P \X WinHi2P

\* Calls that vary the window and the three-body arguments
Init ==
    /\ lims \in Windows
    /\ r3p_order \in 0..MaxOrder3
    /\ r3p_maxint \in -1..MaxInt3
    /\ r2p = TRUE
    /\ r2p_order = DefaultOrder2
    /\ r2p_maxint = MaxInt2
    /\ Entry
    /\ NoMinDist /\ NoR3P /\ NoDownload

\* Calls that vary the window and the two-body arguments
Init2P ==
    /\ lims \in Windows2P
    /\ r3p_order = DefaultOrder3
    /\ r3p_maxint \in -1..1
    /\ r2p \in BOOLEAN
    /\ r2p_order \in 0..MaxOrder2
    /\ r2p_maxint \in -1..MaxInt2
    /\ Entry
    /\ NoMinDist /\ NoR3P /\ NoDownload

\* The call of plane.py: rmm_in_area([1.1, 2.5, 1.1, 2.5]) with the default arguments
InitPlane ==
    /\ lims = <<<<11, 10>>, <<25, 10>>, <<11, 10>>, <<25, 10>>>>
    /\ r3p_order = DefaultOrder3
    /\ r3p_maxint = DefaultMaxInt3
    /\ r2p = TRUE
    /\ r2p_order = DefaultOrder2
    /\ r2p_maxint = DefaultMaxInt2
    /\ Entry
    /\ NoMinDist /\ NoR3P /\ NoDownload

Next == Iter3P \/ End3P \/ Iter2P \/ End2P

Spec == Init /\ [][Next]_vars
Spec2P == Init2P /\ [][Next]_vars
SpecPlane == InitPlane /\ [][Next]_vars

-----------------------------------------------------------------------------
(* Calls of mindist_r3p, r3p and download_dataset *)

\* Resonances of the bounded checks: the one of plane.py's window, one with j = 0,
\* and ones whose singular x lies left and right of x = 1
MdRes == {<<2, -5, 3>>, <<1, 0, -1>>, <<2, -3, 2>>, <<7, -8, 1>>, <<7, -6, 1>>, <<1, -1, -2>>}

\* Coordinates of the points
MdXs == {FRat(1, 1), FRat(3, 2), FRat(33, 20), FRat(2, 1)}
MdYs == {FRat(19, 10), FRat(2, 1), FRat(9, 2)}

\* Arrays of every shape the shape test tells apart
MdXArrays ==
    {Arr1(<<>>), Arr1(<<FRat(3, 2)>>), Arr1(<<FRat(1, 1), FRat(2, 1)>>),
     Arr1(<<FRat(2, 1), FRat(1, 1)>>), Arr2(1, 2, <<FRat(1, 1), FRat(2, 1)>>),
     Arr2(2, 1, <<FRat(1, 1), FRat(2, 1)>>)}
MdYArrays ==
    {Arr1(<<>>), Arr1(<<FRat(2, 1)>>), Arr1(<<FRat(9, 2), FRat(19, 10)>>),
     Arr1(<<FRat(19, 10), FRat(19, 10)>>), Arr2(1, 2, <<FRat(2, 1), FRat(2, 1)>>),
     Arr2(2, 1, <<FRat(2, 1), FRat(2, 1)>>)}

\* Calls of mindist_r3p on a point, on arrays of points and on shapes that do not fit;
\* a point may lie on the curve: nny = r3p(nnx, mmr3p)
InitMinDist ==
    /\ mmr3p \in MdRes
    /\ \/ \E vx \in MdXs :
            /\ nnx = Scalar(vx)
            /\ nny \in {Scalar(vy) : vy \in MdYs \cup {v \in {R3PValue(vx, mmr3p)} : IsFinite(v)}}
       \/ /\ nnx \in MdXArrays \cup {Scalar(FRat(3, 2))}
          /\ nny \in MdYArrays \cup {Scalar(FRat(2, 1))}
          /\ Len(nnx.shape) + Len(nny.shape) > 0
    /\ return_coords \in BOOLEAN
    /\ plain \in BOOLEAN
    /\ res = DefaultRes
    /\ MdCall
    /\ NoRmm /\ NoR3P /\ NoDownload

NextMinDist == MdEntry \/ MdPoint \/ MdHalley \/ MdDistance \/ MdFallback

SpecMinDist == InitMinDist /\ [][NextMinDist]_vars

\* Samples of r3p: around the singular x of the resonances below
R3PRes == {<<2, -5, 3>>, <<1, -1, -2>>, <<1, 0, -1>>}
R3PXs == {FRat(0, 1), FRat(1, 1), FRat(3, 2), FRat(5, 2), FRat(3, 1)}

\* Calls of r3p on a scalar, plain or numpy, and on a numpy array of up to three samples
InitR3P ==
    /\ r3p_res \in R3PRes
    /\ \/ /\ r3p_x \in {Scalar(v) : v \in R3PXs}
          /\ r3p_plain \in BOOLEAN
       \/ /\ r3p_x \in {Arr1(vs) : vs \in UNION {[1..n -> R3PXs] : n \in 0..MaxSamples}}
          /\ r3p_plain = FALSE
    /\ r3p_pc = "call" /\ r3p_out = <<>>
    /\ NoRmm /\ NoMinDist /\ NoDownload

NextR3P == R3PCall

SpecR3P == InitR3P /\ [][NextR3P]_vars

\* Calls of download_dataset, the local files present or absent
InitDownload ==
    /\ source \in {"eu", "nasa", "EU", "kepler"}
    /\ fmt \in {"csv", "votable", "vot", "CSV", "json"}
    /\ overwrite \in BOOLEAN
    /\ return_data \in BOOLEAN
    /\ files \in [Filenames -> {"absent", "stored"}]
    /\ files0 = files
    /\ remote = [k \in DownloadUrls |-> "served"]
    /\ dpc = "call" /\ dret = "None" /\ fetched = 0
    /\ NoRmm /\ NoMinDist /\ NoR3P

NextDownload == DownloadDataset

SpecDownload == InitDownload /\ [][NextDownload]_vars

-----------------------------------------------------------------------------
(* Properties of the three-body list *)

Returned == pc = "done"

\* The three-body list of the returned value
Returned3 == IF r2p THEN ret[1] ELSE ret

\* Some d >= 2 divides i, j and k
HasCommonDivisor(t) ==
    \E d \in 2..(Abs(t[1]) + Abs(t[2]) + Abs(t[3])) :
        t[1] % d = 0 /\ t[2] % d = 0 /\ t[3] % d = 0

\* Two triples define the same curve y = -k/(i*x+j): they are proportional
SameCurve(s, t) ==
    /\ s[1] * t[2] = s[2] * t[1]
    /\ s[1] * t[3] = s[3] * t[1]
    /\ s[2] * t[3] = s[3] * t[2]

\* The triples of the search cube that pass the order test
Cube3 ==
    {t \in (-r3p_maxint..r3p_maxint) \X (-r3p_maxint..r3p_maxint) \X (-r3p_maxint..r3p_maxint) :
        Abs(t[1] + t[2] + t[3]) <= r3p_order}

\* C1: every triple of the returned three-body list has gcd(|i|,|j|,|k|) = 1,
\* and no triple occurs twice in the list.
C1_GcdOneNoRepeat ==
    Returned =>
        \A n \in 1..Len(Returned3) :
            /\ ~HasCommonDivisor(Returned3[n])
            /\ \A m \in 1..(n - 1) : Returned3[m] # Returned3[n]

\* C1 witness: the search returned a list that holds a triple t whose double 2t
\* was also examined (it is in the cube and passes the order test), so the gcd
\* reduction and the membership test both acted.
C1_Witness ==
    /\ Returned
    /\ Len(Returned3) >= 2
    /\ \E n \in 1..Len(Returned3) :
          <<2 * Returned3[n][1], 2 * Returned3[n][2], 2 * Returned3[n][3]>> \in Cube3

\* C2: the list never holds two triples that define the same curve, in
\* particular never a triple and its global negation.
C2_NoSameCurve ==
    Returned =>
        \A m, n \in 1..Len(Returned3) :
            m # n => ~SameCurve(Returned3[m], Returned3[n])

\* C3: in every triple of the returned list i # 0 and k # 0, and j = 0 only
\* with i > 0 and k < 0, for every order3.
C3_ZeroRule ==
    Returned =>
        \A n \in 1..Len(Returned3) :
            /\ Returned3[n][1] # 0
            /\ Returned3[n][3] # 0
            /\ Returned3[n][2] = 0 => (Returned3[n][1] > 0 /\ Returned3[n][3] < 0)

\* C3 witness: with order3 > 0 the returned list holds a triple with j = 0 that
\* came out of a gcd reduction, and a triple that came out of the sign negation.
C3_Witness ==
    /\ Returned
    /\ r3p_order > 0
    /\ \E n \in 1..Len(Returned3) :
          /\ Returned3[n][2] = 0
          /\ <<2 * Returned3[n][1], 0, 2 * Returned3[n][3]>> \in Cube3
    /\ \E n \in 1..Len(Returned3) :
          /\ Returned3[n][1] > 0 /\ Returned3[n][2] < 0 /\ Returned3[n][3] > 0
          /\ <<-Returned3[n][1], -Returned3[n][2], -Returned3[n][3]>> \in Cube3

-----------------------------------------------------------------------------
(* Geometry of the curve y = -k/(i*x+j), stated without division *)

\* The sign of i*x*y + j*y + k at the point (x, y) of rationals with positive
\* denominators.  For k # 0 the curve is exactly the zero set of this form:
\* a zero has i*x + j # 0 and y # 0.
CurveF(t, x, y) == t[1] * x[1] * y[1] + t[2] * y[1] * x[2] + t[3] * x[2] * y[2]

\* xMin <= xMax and yMin <= yMax: the window holds at least one point
NonEmptyBox(w) == RLe(w[1], w[2]) /\ RLe(w[3], w[4])

\* The curve has a point in the window.  The form is bilinear, so on the
\* rectangle it takes its least and greatest values at corners, and it is
\* continuous, so it has a zero there iff these have opposite signs.
MeetsWindow(t, w) ==
    /\ NonEmptyBox(w)
    /\ \E a \in {1, 2}, b \in {3, 4} : CurveF(t, w[a], w[b]) <= 0
    /\ \E a \in {1, 2}, b \in {3, 4} : CurveF(t, w[a], w[b]) >= 0

\* At the non-singular x the curve's value lies in [yMin, yMax]: along the
\* vertical line the form is linear in y with slope i*x + j.
VerticalHit(t, x, w) ==
    LET slope == t[1] * x[1] + t[2] * x[2]
    IN  \/ slope > 0 /\ CurveF(t, x, w[3]) <= 0 /\ CurveF(t, x, w[4]) >= 0
        \/ slope < 0 /\ CurveF(t, x, w[3]) >= 0 /\ CurveF(t, x, w[4]) <= 0

LeftHit(t, w) == VerticalHit(t, w[1], w)
RightHit(t, w) == VerticalHit(t, w[2], w)

\* The curve's x at y = yMin exists and lies in [xMin, xMax]: along the
\* horizontal line the form is linear in x with slope i*y.
BottomHit(t, w) ==
    LET slope == t[1] * w[3][1]
    IN  \/ slope > 0 /\ CurveF(t, w[1], w[3]) <= 0 /\ CurveF(t, w[2], w[3]) >= 0
        \/ slope < 0 /\ CurveF(t, w[1], w[3]) >= 0 /\ CurveF(t, w[2], w[3]) <= 0

\* The curve passes through the inside of the top edge
TopCrossed(t, w) ==
    \/ CurveF(t, w[1], w[4]) < 0 /\ CurveF(t, w[2], w[4]) > 0
    \/ CurveF(t, w[1], w[4]) > 0 /\ CurveF(t, w[2], w[4]) < 0

\* The singular x = -j/i lies strictly between xMin and xMax
SingInside(t, w) ==
    LET a == t[1] * w[1][1] + t[2] * w[1][2]
        b == t[1] * w[2][1] + t[2] * w[2][2]
    IN  (a < 0 /\ b > 0) \/ (a > 0 /\ b < 0)

Listed(t) == \E n \in 1..Len(Returned3) : SameCurve(Returned3[n], t)

\* C4 as claimed: when the function has returned, every triple of the cube with
\* i # 0, k # 0 that passes the order test and whose curve has a point in the
\* window has its curve in the returned list.
C4_Complete ==
    Returned =>
        \A t \in Cube3 :
            (t[1] # 0 /\ t[3] # 0 /\ MeetsWindow(t, lims)) => Listed(t)

\* C4 amended: the same, for the triples other than (i, 0, k) with i and k of
\* the same sign, which the j = 0 rule drops whatever the window; their curves
\* y = -(k/i)/x have no point with x >= 0 and y >= 0, so for a window with
\* xMin >= 0 and yMin >= 0 every triple is covered.
C4_CompleteButSameSignJ0 ==
    Returned =>
        \A t \in Cube3 :
            (/\ t[1] # 0 /\ t[3] # 0
             /\ \/ ~(t[2] = 0 /\ t[1] * t[3] > 0)
                \/ (l1x[1] >= 0 /\ l1y[1] >= 0)
             /\ MeetsWindow(t, lims)) => Listed(t)

\* C4 witness: the returned list holds a curve that passes through the inside of
\* the top edge of a non-empty window, the edge the code never tests.
C4_Witness ==
    /\ Returned
    /\ NonEmptyBox(lims)
    /\ \E n \in 1..Len(Returned3) : TopCrossed(Returned3[n], lims)

\* C5: every triple of the returned list crosses the left edge, the right edge
\* or the bottom edge at a non-singular x, and so has a point in the window when
\* the window is not empty.
C5_Sound ==
    Returned =>
        \A n \in 1..Len(Returned3) :
            /\ \/ LeftHit(Returned3[n], lims)
               \/ RightHit(Returned3[n], lims)
               \/ BottomHit(Returned3[n], lims)
            /\ NonEmptyBox(lims) => MeetsWindow(Returned3[n], lims)

\* C5 witness: the returned list holds a triple whose singular x is inside the
\* x-range and that was accepted by the bottom-edge test alone.
C5_Witness ==
    /\ Returned
    /\ NonEmptyBox(lims)
    /\ \E n \in 1..Len(Returned3) :
          /\ SingInside(Returned3[n], lims)
          /\ ~LeftHit(Returned3[n], lims)
          /\ ~RightHit(Returned3[n], lims)
          /\ BottomHit(Returned3[n], lims)

-----------------------------------------------------------------------------
(* Properties of the two-body lists *)

\* The two-body lists of the returned value
Returned2X == ret[2]
Returned2Y == ret[3]

Coprime(p, q) == \A d \in 2..q : ~(p % d = 0 /\ q % d = 0)

Members(list) == {list[n] : n \in 1..Len(list)}

\* The coprime pairs (p, q), 1 <= q < p <= maxInt2, p - q <= order2, lo <= p/q <= hi
Expected2(lo, hi) ==
    {pq \in (1..r2p_maxint) \X (1..r2p_maxint) :
        /\ pq[2] < pq[1]
        /\ pq[1] - pq[2] <= r2p_order
        /\ Coprime(pq[1], pq[2])
        /\ lo[1] * pq[2] <= pq[1] * lo[2]
        /\ pq[1] * hi[2] <= hi[1] * pq[2]}

WellFormed2(list) ==
    \A n \in 1..Len(list) :
        /\ list[n][1] > list[n][2]
        /\ list[n][2] >= 1
        /\ Coprime(list[n][1], list[n][2])
        /\ \A m \in 1..(n - 1) : list[m] # list[n]

\* C6: in both returned two-body lists every pair (p, q) has p > q >= 1 and
\* gcd(p, q) = 1, and no pair occurs twice.
C6_PairsReduced ==
    (Returned /\ r2p) => (WellFormed2(Returned2X) /\ WellFormed2(Returned2Y))

\* C6 witness: (4, 2) was examined and passed the order test, and both returned
\* lists hold (2, 1), to which it reduces.
C6_Witness ==
    /\ Returned /\ r2p
    /\ r2p_maxint >= 4 /\ r2p_order >= 2
    /\ <<2, 1>> \in Members(Returned2X)
    /\ <<2, 1>> \in Members(Returned2Y)
    /\ ~EqAx(lims)

\* C7: with r2p true the x-axis list holds exactly the coprime pairs within the
\* bounds whose ratio lies in [xMin, xMax], and for a non-square window the
\* y-axis list exactly those whose ratio lies in [yMin, yMax].
C7_ExactPairs ==
    (Returned /\ r2p) =>
        /\ Members(Returned2X) = Expected2(l1x, l2x)
        /\ ~EqAx(lims) => Members(Returned2Y) = Expected2(l1y, l2y)

\* C7 witness: a non-square window whose two lists differ, with a ratio equal to
\* xMin and one equal to xMax in the x-axis list, and an examined pair (2p, 2q)
\* that passes the order test while its reduced form is listed.
C7_Witness ==
    /\ Returned /\ r2p
    /\ ~EqAx(lims)
    /\ Returned2X # <<>> /\ Returned2Y # <<>>
    /\ Members(Returned2X) # Members(Returned2Y)
    /\ \E a, b \in Members(Returned2X) :
          /\ a[1] * l1x[2] = l1x[1] * a[2]
          /\ b[1] * l2x[2] = l2x[1] * b[2]
          /\ a # b
    /\ \E a \in Members(Returned2X) :
          2 * a[1] <= r2p_maxint /\ 2 * (a[1] - a[2]) <= r2p_order

\* The list the membership test of one axis builds over the first n pairs of
\* the loops, in the order of the loops
RECURSIVE AxisList(_, _, _)
AxisList(n, lo, hi) ==
    IF n = 0 THEN <<>>
    ELSE LET m == Len(Intl2(r2p_maxint))
             i == Intl2(r2p_maxint)[((n - 1) \div m) + 1]
             j == Intl2(r2p_maxint)[((n - 1) % m) + 1]
             prev == AxisList(n - 1, lo, hi)
         IN  IF j >= i \/ i - j > r2p_order THEN prev
             ELSE LET g == Gcd(i, j)
                      p == <<i \div g, j \div g>>
                  IN  IF /\ lo[1] * p[2] <= p[1] * lo[2]
                         /\ p[1] * hi[2] <= hi[1] * p[2]
                         /\ p \notin Members(prev)
                      THEN Append(prev, p)
                      ELSE prev

\* C8: on a square window the returned y-axis list is the x-axis list, member
\* for member in the same order, and is the list the y-axis membership test
\* builds on that window.
C8_SquareAlias ==
    (Returned /\ r2p /\ EqAx(lims)) =>
        /\ Returned2Y = Returned2X
        /\ Returned2Y = AxisList(Len(Intl2(r2p_maxint)) * Len(Intl2(r2p_maxint)), l1y, l2y)

\* C8 witness: a square window was searched and the returned lists hold at
\* least two pairs.
C8_Witness ==
    /\ Returned /\ r2p
    /\ EqAx(lims)
    /\ Len(Returned2Y) >= 2
    /\ Returned2Y = r2px

-----------------------------------------------------------------------------
(* The call of plane.py *)

\* C9: rmm_in_area([1.1, 2.5, 1.1, 2.5]) with order3 = 0 and maxInt3 = 10
\* returns a three-body list that holds the curve of (2, -5, 3).
C9_PlaneHolds2m53 ==
    Returned => Listed(<<2, -5, 3>>)

\* C9 witness: the call returned, the list holds (2, -5, 3) itself, and the
\* triple was accepted by the bottom-edge test: its singular x is xMax and its
\* value at xMin is below yMin.
C9_Witness ==
    /\ Returned
    /\ lims = <<<<11, 10>>, <<25, 10>>, <<11, 10>>, <<25, 10>>>>
    /\ r3p_order = 0 /\ r3p_maxint = 10
    /\ InList(<<2, -5, 3>>, Returned3)
    /\ REq(Sing(2, -5), l2x)
    /\ ~LeftHit(<<2, -5, 3>>, lims)
    /\ BottomHit(<<2, -5, 3>>, lims)

-----------------------------------------------------------------------------
(* Invalid configurations *)

\* xMin >= xMax or yMin >= yMax, or a non-positive maxInt3 or maxInt2
InvalidConfig ==
    \/ RGe(l1x, l2x)
    \/ RGe(l1y, l2y)
    \/ r3p_maxint <= 0
    \/ r2p_maxint <= 0

\* No triple and no pair has been examined
NothingExamined == ix = 1 /\ jx = 1 /\ kx = 1 /\ px = 1 /\ qx = 1

\* C10 as claimed: on an invalid configuration the function stops before any
\* triple or pair is examined and returns no result.
C10_FailsFast ==
    InvalidConfig => (NothingExamined /\ ~Returned)

\* C10 amended: an invalid configuration is searched like any other; the
\* function returns after both searches ran over their whole (possibly empty)
\* ranges, and the result holds an empty three-body list when maxInt3 <= 0 and
\* empty two-body lists when maxInt2 <= 0.
C10_NoValidation ==
    (InvalidConfig /\ Returned) =>
              /\ ret = IF r2p THEN <<r3pl, r2px, r2py>> ELSE r3pl
              /\ ix = Len(Intl3(r3p_maxint)) + 1
              /\ r2p => px = Len(Intl2(r2p_maxint)) + 1
              /\ r3p_maxint <= 0 => Returned3 = <<>>
              /\ (r2p /\ r2p_maxint <= 0) => (Returned2X = <<>> /\ Returned2Y = <<>>)

\* C10 witness: a call with maxInt3 <= 0 and a window with xMin >= xMax has
\* returned, and its x-axis list is not empty.
C10_Witness ==
    /\ Returned /\ r2p
    /\ RGe(l1x, l2x)
    /\ r3p_maxint <= 0
    /\ Returned2X # <<>>

-----------------------------------------------------------------------------
(* Properties of mindist_r3p, r3p, the search loops and download_dataset *)

\* C11: once mindist_r3p has passed its shape test, it has raised "Fix shape of nnx
\* and nny", with no point begun and nothing returned or collected, exactly when nnx and
\* nny are neither both scalars nor both one-dimensional of the same length
C11_ShapeError ==
    mpc # "call" =>
        IF \/ (nnx.shape = <<>> /\ nny.shape = <<>>)
           \/ (Len(nnx.shape) = 1 /\ Len(nny.shape) = 1 /\ nnx.shape[1] = nny.shape[1])
        THEN merr # "Fix shape of nnx and nny"
        ELSE /\ mpc = "raised" /\ merr = "Fix shape of nnx and nny"
             /\ hist = <<>> /\ mret = <<>>
             /\ mindistll = <<>> /\ x0l = <<>> /\ y0l = <<>>
             /\ x0 = FZero /\ dx = FZero

\* C11: the shape error has been raised on one-dimensional sequences of unequal length
C11_Witness ==
    /\ mpc = "raised" /\ merr = "Fix shape of nnx and nny"
    /\ Len(nnx.shape) = 1 /\ Len(nny.shape) = 1
    /\ nnx.shape[1] > 0 /\ nny.shape[1] > nnx.shape[1]

\* C12: the Halley loop of a point ends: it never enters its body in a state
\* <<x0, y0, dx, xstuck>> in which it has entered it before (the body is a function of
\* that state, so a loop that does runs forever)
C12_LoopEnds ==
    ~(/\ mpc = "while"
      /\ LoopGoesOn(dx, res)
      /\ <<x0, y0, dx, xstuck>> \in hist[Len(hist)].seen)

\* C13: for every point begun, the fallback has run at most once, and only after passes
\* of the Halley loop that ended by declaring non-convergence, in which case line 310
\* has not run; where line 310 has run, the loop has not declared non-convergence, the
\* fallback has not run, and the result is the distance to the last iterate
C13_FallbackAfterNoConv ==
    /\ \A n \in 1..Len(hist) :
        /\ hist[n].fallbacks + hist[n].direct <= 1
        /\ hist[n].fallbacks = 1 => (hist[n].passes /\ hist[n].noconv)
        /\ hist[n].direct = 1 => ~hist[n].noconv
    /\ (mpc = "done" /\ ~array /\ hist[1].direct = 1) =>
        mret = (IF return_coords
                THEN <<Dist(nnx.data[1], nny.data[1], x0, y0), x0, y0>>
                ELSE Dist(nnx.data[1], nny.data[1], x0, y0))
    /\ (mpc = "done" /\ array) =>
        \A n \in 1..Len(hist) :
            hist[n].direct = 1 =>
                mindistll[n] = Dist(nnx.data[n], nny.data[n], x0l[n], y0l[n])

\* C13: a call has returned the result of the fallback
C13_Witness ==
    /\ mpc = "done"
    /\ \E n \in 1..Len(hist) : hist[n].fallbacks = 1 /\ hist[n].noconv

\* C14: a point of a sequence enters the Halley loop at x0 = nnx[n] - 0.5 on the curve
\* with dx = 1 and the tracker None, whatever the points before have left; and a call on
\* sequences returns sequences of the length of the input whose n-th entries are what
\* the scalar call on (nnx[n], nny[n]) returns (the scalar call of the state machine
\* returning what ScalarCall says it returns)
C14_PointwiseScalar ==
    /\ (mpc = "while" /\ ~hist[Len(hist)].passes) =>
        /\ Len(hist) = pt + 1
        /\ x0 = FSub(nnx.data[pt + 1], FDiv(FInt(1), FInt(2)))
        /\ y0 = R3PValue(x0, mmr3p)
        /\ dx = FInt(1)
        /\ xstuck.tag = "None"
    /\ (mpc = "done" /\ array) =>
        /\ Len(mindistll) = nnx.shape[1]
        /\ Len(x0l) = nnx.shape[1]
        /\ Len(y0l) = nnx.shape[1]
        /\ mret = (IF return_coords THEN <<mindistll, x0l, y0l>> ELSE mindistll)
        /\ \A n \in 1..nnx.shape[1] :
            \E sc \in {ScalarCall(nnx.data[n], nny.data[n], mmr3p, res, plain, MaxFuel)} :
                /\ sc.end = "done"
                /\ mindistll[n] = sc.mindist
                /\ x0l[n] = sc.x0
                /\ y0l[n] = sc.y0
    /\ (mpc = "raised" /\ array /\ merr = "ZeroDivisionError") =>
        ScalarCall(nnx.data[pt + 1], nny.data[pt + 1], mmr3p, res, plain, MaxFuel).end = "raised"
    /\ (mpc = "done" /\ ~array) =>
        \E sc \in {ScalarCall(nnx.data[1], nny.data[1], mmr3p, res, plain, MaxFuel)} :
            /\ sc.end = "done"
            /\ mret = (IF return_coords THEN <<sc.mindist, sc.x0, sc.y0>> ELSE sc.mindist)

\* C14: a call on sequences of two points has returned, the first point having left a
\* tracker other than None and an iterate behind
C14_Witness ==
    /\ mpc = "done" /\ array /\ Len(mindistll) = 2
    /\ hist[1].passes /\ hist[2].passes
    /\ \E s \in hist[1].seen : s[4].tag # "None"

\* C15: where mindist_r3p has returned coordinates, after the loop converged or after
\* the fallback, y is the value of the curve at the returned x and the distance is the
\* Euclidean distance of the point to (x, y), a number that is not negative
C15_OnCurveAndEuclidean ==
    /\ (mpc = "done" /\ ~array /\ return_coords) =>
        /\ mret[3] = R3PValue(mret[2], mmr3p)
        /\ mret[1] = Dist(nnx.data[1], nny.data[1], mret[2], mret[3])
        /\ FGe(mret[1], FZero)
    /\ (mpc = "done" /\ array /\ return_coords) =>
        \A n \in 1..Len(mret[1]) :
            /\ mret[3][n] = R3PValue(mret[2][n], mmr3p)
            /\ mret[1][n] = Dist(nnx.data[n], nny.data[n], mret[2][n], mret[3][n])
            /\ FGe(mret[1][n], FZero)

\* C16: for a point on the curve, nny = -c / (a * nnx + b), the distance mindist_r3p
\* returns is at most the tolerance res
C16_OnCurveWithinTol ==
    (/\ mpc = "done" /\ ~array
     /\ nny.data[1] = R3PValue(nnx.data[1], mmr3p)) =>
        FLe(IF return_coords THEN mret[1] ELSE mret, res)

\* C17: r3p on a sequence of samples that straddles the singular x (a sample at or below
\* it and a sample at or above it) returns nan for the sample nearest to the singular x
\* and the value of the curve for every other sample; on a sequence that does not
\* straddle it, it returns the value of the curve for every sample
C17_StraddleOverwritten ==
    (r3p_pc = "done" /\ Len(r3p_x.shape) = 1) =>
        /\ Len(r3p_out) = Len(r3p_x.data)
        /\ IF \E lo, hi \in 1..Len(r3p_x.data) :
                  /\ FLe(r3p_x.data[lo], FDiv(FInt(-r3p_res[2]), FInt(r3p_res[1])))
                  /\ FLe(FDiv(FInt(-r3p_res[2]), FInt(r3p_res[1])), r3p_x.data[hi])
           THEN \E n \in 1..Len(r3p_x.data) :
                  /\ IsNaN(r3p_out[n])
                  /\ \A k \in 1..Len(r3p_x.data) :
                        /\ FLe(FAbs(FSub(r3p_x.data[n], FSing(r3p_res))),
                               FAbs(FSub(r3p_x.data[k], FSing(r3p_res))))
                        /\ k # n => r3p_out[k] = R3PValue(r3p_x.data[k], r3p_res)
           ELSE \A k \in 1..Len(r3p_x.data) :
                  r3p_out[k] = R3PValue(r3p_x.data[k], r3p_res)

\* C17 as amended: the overwrite needs two samples or more. On a sequence of two or more
\* samples that straddles the singular x, the first of the samples nearest to it is
\* returned as nan and every other sample keeps the value of the curve; on every other
\* sequence, one of a single sample on the singular x included, every sample keeps the
\* value of the curve
C17_StraddleOverwrittenFromTwo ==
    (r3p_pc = "done" /\ Len(r3p_x.shape) = 1) =>
        /\ Len(r3p_out) = Len(r3p_x.data)
        /\ IF /\ Len(r3p_x.data) >= 2
              /\ \E lo, hi \in 1..Len(r3p_x.data) :
                  /\ FLe(r3p_x.data[lo], FDiv(FInt(-r3p_res[2]), FInt(r3p_res[1])))
                  /\ FLe(FDiv(FInt(-r3p_res[2]), FInt(r3p_res[1])), r3p_x.data[hi])
           THEN \E n \in 1..Len(r3p_x.data) :
                  /\ IsNaN(r3p_out[n])
                  /\ \A k \in 1..Len(r3p_x.data) :
                        /\ FLe(FAbs(FSub(r3p_x.data[n], FSing(r3p_res))),
                               FAbs(FSub(r3p_x.data[k], FSing(r3p_res))))
                        /\ k < n => FLt(FAbs(FSub(r3p_x.data[n], FSing(r3p_res))),
                                        FAbs(FSub(r3p_x.data[k], FSing(r3p_res))))
                        /\ k # n => r3p_out[k] = R3PValue(r3p_x.data[k], r3p_res)
           ELSE \A k \in 1..Len(r3p_x.data) :
                  r3p_out[k] = R3PValue(r3p_x.data[k], r3p_res)

\* C17: r3p has returned on three samples around the singular x, the nearest of them
\* as nan and the others as numbers
C17_Witness ==
    /\ r3p_pc = "done" /\ Len(r3p_x.shape) = 1 /\ Len(r3p_x.data) = 3
    /\ FLt(r3p_x.data[1], FSing(r3p_res)) /\ FLt(FSing(r3p_res), r3p_x.data[3])
    /\ IsNaN(r3p_out[2]) /\ IsFinite(r3p_out[1]) /\ IsFinite(r3p_out[3])

\* C18: r3p raises on no x; on a sample x with a * x + b = 0 it returns an infinity or nan
C18_R3PNeverRaises ==
    /\ r3p_pc # "raised"
    /\ r3p_pc = "done" =>
        \A n \in 1..Len(r3p_x.data) :
            FAdd(FMul(FInt(r3p_res[1]), r3p_x.data[n]), FInt(r3p_res[2])) = FZero =>
                ~IsFinite(r3p_out[n])

\* C19: in the three-body search each of the loops over i, j and k visits its values in
\* order of descending absolute value: where a loop goes on to its next value, that
\* value is no larger in magnitude than the one before
C19_DescendingMagnitude ==
    [][(pc = "r3p" /\ ix' <= Len(Intl3(r3p_maxint))) =>
        /\ kx' > kx => Abs(Intl3(r3p_maxint)[kx']) <= Abs(Intl3(r3p_maxint)[kx])
        /\ jx' > jx => Abs(Intl3(r3p_maxint)[jx']) <= Abs(Intl3(r3p_maxint)[jx])
        /\ ix' > ix => Abs(Intl3(r3p_maxint)[ix']) <= Abs(Intl3(r3p_maxint)[ix])]_vars

\* C19 as amended: each of the loops visits the integers from maxInt3 down to -maxInt3
\* in descending order of value: a loop that goes on takes the value one below, a loop
\* that starts again starts at maxInt3, and it does so after -maxInt3
C19_DescendingValue ==
    [][(pc = "r3p" /\ ix' <= Len(Intl3(r3p_maxint))) =>
        /\ kx' > kx => Intl3(r3p_maxint)[kx'] = Intl3(r3p_maxint)[kx] - 1
        /\ jx' > jx => Intl3(r3p_maxint)[jx'] = Intl3(r3p_maxint)[jx] - 1
        /\ ix' > ix => Intl3(r3p_maxint)[ix'] = Intl3(r3p_maxint)[ix] - 1
        /\ kx' <= kx => (/\ Intl3(r3p_maxint)[kx] = -r3p_maxint
                         /\ Intl3(r3p_maxint)[kx'] = r3p_maxint)
        /\ jx' < jx => (/\ Intl3(r3p_maxint)[jx] = -r3p_maxint
                        /\ Intl3(r3p_maxint)[jx'] = r3p_maxint)]_vars

\* C19: the loop over k is at a negative value, which it visits after 0
C19_Witness ==
    /\ pc = "r3p" /\ ix <= Len(Intl3(r3p_maxint))
    /\ r3p_maxint >= 1
    /\ Intl3(r3p_maxint)[kx] = -r3p_maxint
    /\ Intl3(r3p_maxint)[jx] = 0

\* C20: a call of download_dataset with a valid source and format that finds the file
\* present downloads it again and replaces its content when overwrite is set, and
\* neither downloads nor changes it when overwrite is not set; a call that finds the
\* file absent downloads it and creates the file
C20_OverwriteDownloadsAgain ==
    (dpc # "call" /\ ~BadFilename(Lower(source), Lower(fmt))) =>
        IF files0[GetFilename(Lower(source), Lower(fmt))] = "absent" \/ overwrite
        THEN /\ dpc = "done"
             /\ fetched = 1
             /\ files[GetFilename(Lower(source), Lower(fmt))] = "served"
             /\ \A n \in Filenames \ {GetFilename(Lower(source), Lower(fmt))} :
                    files[n] = files0[n]
        ELSE /\ dpc = "done"
             /\ fetched = 0
             /\ files = files0

\* C21: with b # 0, a result mindist_r3p reaches by convergence lies on the side of the
\* singular x on which the start x0 = nnx - 0.5 lies
C21_SameSideAsStart ==
    (mpc = "done" /\ mmr3p[2] # 0) =>
        \A n \in 1..Len(hist) :
            hist[n].direct = 1 =>
                \E sx \in {FSub(nnx.data[n], FDiv(FInt(1), FInt(2)))},
                   rx \in {IF array THEN x0l[n] ELSE x0} :
                    \/ FEq(sx, FSing(mmr3p))
                    \/ FLt(sx, FSing(mmr3p)) /\ ~FGt(rx, FSing(mmr3p))
                    \/ FGt(sx, FSing(mmr3p)) /\ ~FLt(rx, FSing(mmr3p))

\* C21 as amended: with b # 0 the search is confined to the branch left of the singular
\* x, whatever the side of the start. A pass of the loop that enters the branch of
\* line 288 and goes on puts the iterate 0.05 left of the singular x, on the curve, with
\* dx = 1; after any other pass that goes on the iterate is left of the singular x or
\* is nan; and a result reached by convergence is left of the singular x or is nan
C21_LeftBranchOnly ==
    [][(mpc = "while" /\ mmr3p[2] # 0) =>
        /\ mpc' = "while" =>
            IF Len(hist'[Len(hist')].cross) > Len(hist[Len(hist)].cross)
            THEN /\ x0' = FSub(FSing(mmr3p), FDiv(FInt(5), FInt(100)))
                 /\ FLt(x0', FSing(mmr3p))
                 /\ y0' = R3PValue(x0', mmr3p)
                 /\ dx' = FInt(1)
            ELSE FLt(x0', FSing(mmr3p)) \/ IsNaN(x0')
        /\ (mpc' \in {"point", "done"} /\ hist'[Len(hist)].direct = 1) =>
            (FLt(x0', FSing(mmr3p)) \/ IsNaN(x0'))]_vars

\* C21: a call whose start lies right of the singular x has been put back left of it
\* and has returned a result reached by convergence there
C21_Witness ==
    /\ mpc = "done" /\ ~array /\ mmr3p[2] # 0
    /\ hist[1].direct = 1 /\ Len(hist[1].cross) >= 1
    /\ FGt(FSub(nnx.data[1], FDiv(FInt(1), FInt(2))), FSing(mmr3p))
    /\ FLt(x0, FSing(mmr3p))

\* C22: for the point in hand, the tracker is a function of the iterates with which the
\* branch of line 288 was entered (each at or beyond the singular x, b # 0): None before
\* the first, "first_stuck_pass" after the first, the second iterate from the second on,
\* and "no_conv" exactly when a later iterate equals the recorded second one; so it never
\* moves back, the first crossing declares nothing, and with "no_conv" the loop has been
\* left and takes no further pass
C22_TrackerStateMachine ==
    Len(hist) > 0 =>
        \E c \in {hist[Len(hist)].cross} :
            /\ \A k \in 1..Len(c) : FGe(c[k], FSing(mmr3p)) /\ mmr3p[2] # 0
            /\ \A k \in 3..(Len(c) - 1) : ~FEq(c[k], c[2])
            /\ xstuck.tag = "None" <=> Len(c) = 0
            /\ xstuck.tag = "first_stuck_pass" <=> Len(c) = 1
            /\ xstuck.tag = "float" <=>
                (Len(c) >= 2 /\ xstuck.val = c[2] /\ (Len(c) >= 3 => ~FEq(c[Len(c)], c[2])))
            /\ xstuck.tag = "no_conv" <=> (Len(c) >= 3 /\ FEq(c[Len(c)], c[2]))
            /\ xstuck.tag = "no_conv" <=> hist[Len(hist)].noconv
            /\ xstuck.tag = "no_conv" => mpc \in {"left", "point", "done"}

\* C22: non-convergence has been declared at a crossing that repeats the recorded one
C22_Witness ==
    /\ mpc = "left" /\ xstuck.tag = "no_conv"
    /\ Len(hist[Len(hist)].cross) = 3
    /\ hist[Len(hist)].cross[3] = hist[Len(hist)].cross[2]
    /\ x0 = hist[Len(hist)].cross[3]

\* C25: every point enters the branch of line 288 at most three times and is put back to
\* the restart position at most twice: a third crossing is made with the iterate of the
\* second one and declares non-convergence
C25_AtMostThreeCrossings ==
    \A n \in 1..Len(hist) :
        /\ Len(hist[n].cross) <= 3
        /\ Len(hist[n].cross) - (IF hist[n].noconv THEN 1 ELSE 0) <= 2
        /\ Len(hist[n].cross) = 3 => (hist[n].noconv /\ hist[n].cross[3] = hist[n].cross[2])

\* C25: a call has returned from the fallback after two restarts and a third crossing
C25_Witness ==
    /\ mpc = "done" /\ ~array
    /\ hist[1].fallbacks = 1
    /\ Len(hist[1].cross) = 3

\* C23: where the fallback has run, every x it sampled lies left of the singular x, and
\* so does the x it returned
C23_FallbackLeftOfSingularity ==
    (mpc = "done" /\ ~array /\ hist[1].fallbacks = 1) =>
        /\ \A n \in 1..Len(FallbackDomain(mmr3p).data) :
            FLt(FallbackDomain(mmr3p).data[n], FSing(mmr3p))
        /\ FLt(x0, FSing(mmr3p))

\* C24: every triple of the returned three-body list lies in the search cube, passes the
\* order test and has not the sign pattern (-, +, -); the triples of the list are the
\* triples of the cube that pass the order and zero rules, have not that sign pattern,
\* have gcd 1 and pass the window test; and they are listed in the order in which the
\* loops first visit a triple that is turned into them
C24_CanonicalInsideCube ==
    Returned =>
        /\ \A n \in 1..Len(Returned3) :
            /\ \A c \in 1..3 : Abs(Returned3[n][c]) <= r3p_maxint
            /\ Abs(Returned3[n][1] + Returned3[n][2] + Returned3[n][3]) <= r3p_order
            /\ ~(Returned3[n][1] < 0 /\ Returned3[n][2] > 0 /\ Returned3[n][3] < 0)
        /\ {Returned3[n] : n \in 1..Len(Returned3)} =
            {t \in Cube3 :
                /\ t[1] # 0 /\ t[3] # 0
                /\ t[2] = 0 => (t[1] > 0 /\ t[3] < 0)
                /\ ~(t[1] < 0 /\ t[2] > 0 /\ t[3] < 0)
                /\ ~HasCommonDivisor(t)
                /\ Crosses(t, lims)}
        /\ \A q \in 1..Len(Returned3) :
            \A p \in 1..(q - 1) :
                \E s \in Sources3(Returned3[p]) :
                    \A u \in Sources3(Returned3[q]) : VisitRank(s) < VisitRank(u)

\* C24: the returned list holds a triple that came out of the sign negation and a
\* triple that came out of a gcd reduction, and a triple that is listed before another
\* one the loops visit earlier, because a multiple of it was visited first
C24_Witness ==
    /\ Returned
    /\ \E n \in 1..Len(Returned3) :
          /\ Returned3[n][1] > 0 /\ Returned3[n][2] < 0 /\ Returned3[n][3] > 0
          /\ <<-Returned3[n][1], -Returned3[n][2], -Returned3[n][3]>> \in Cube3
    /\ \E q \in 1..Len(Returned3) :
          \E p \in 1..(q - 1) :
              /\ VisitRank(Returned3[p]) > VisitRank(Returned3[q])
              /\ <<2 * Returned3[p][1], 2 * Returned3[p][2], 2 * Returned3[p][3]>> \in Cube3

====
